---- MODULE Spec2Model ----
(***************************************************************************)
(* The nats_request_reply processor of                                     *)
(* src/internal/impl/nats/processor_request_reply.go as a state machine:   *)
(* one requestReplyProcessor (its configuration, natsConn and connMut),    *)
(* the goroutines that call Process and Close on it, the broker's          *)
(* responder, and the passing of time against each request's deadline.     *)
(***************************************************************************)
EXTENDS Naturals, Integers, Sequences, FiniteSets, TLC

(* ------------------------------ bounds -------------------------------- *)

\* Goroutines calling Process (each issues one call; its id is also the
\* unique reply inbox of its request).
NumProcs == 2
\* Goroutines calling Close.
NumClosers == 2
\* The configured timeout of a stage that has one, in ticks of the clock.
MaxTimeout == 2

Procs == 1..NumProcs
Closers == 1..NumClosers

Nil == "nil"

(* ------------------------------ data ---------------------------------- *)

\* service.InterpolatedString: a literal, or an interpolation of a metadata
\* key of the message, which errors when the key is absent.
Lit(v) == [kind |-> "lit", arg |-> v]
MetaRef(k) == [kind |-> "meta", arg |-> k]

\* The empty map (a Go map with no entries, an empty nats.Header).
EmptyMap == [k \in {} |-> Nil]

\* The messages handed to Process: body, metadata, and whether AsBytes can
\* serialise the body.
Messages ==
    { [body |-> "p1", meta |-> ("a" :> "x"), bytes |-> TRUE],
      [body |-> "p2", meta |-> EmptyMap, bytes |-> TRUE],
      [body |-> "p3", meta |-> ("a" :> "y"), bytes |-> FALSE] }

\* Values of the "subject" field (line 45).
SubjectConfs == { Lit("s"), MetaRef("a") }

\* Values of the "headers" field (line 55): header name -> template.
HeaderConfs ==
    { EmptyMap,
      ("a" :> Lit("t")) @@ ("b" :> MetaRef("a")) }

\* Values of the "metadata" field (line 62): the metadata keys the filter
\* includes.
MetadataConfs == { [include |-> {"a"}] }

\* Values of the "timeout" field once parsed (line 127): zero, as "0s"
\* parses to, or a positive duration.
TimeoutConfs == { 0, MaxTimeout }

\* Values of the "timeout" field as written (line 65), a duration string:
\* sign, decimal number and unit suffix. Beside the strings of TimeoutConfs,
\* a negative duration ("-1s") and a string with no unit ("1").
DurationString(neg, n, unit) == [neg |-> neg, n |-> n, unit |-> unit]
TimeoutStrings ==
    { DurationString(FALSE, t, "s") : t \in TimeoutConfs }
    \cup { DurationString(TRUE, 1, "s"), DurationString(FALSE, 1, "") }

\* Remaining time of the context handed to Process when the request is
\* issued: already done, one tick, more than any configured timeout, or no
\* deadline at all.
NoDeadline == [deadline |-> FALSE, rem |-> 0]
CtxRemaining ==
    { [deadline |-> TRUE, rem |-> 0], [deadline |-> TRUE, rem |-> 1],
      [deadline |-> TRUE, rem |-> MaxTimeout + 1], NoDeadline }

\* What a responder may answer: payload, delivery metadata, and whether the
\* pipeline can build a message of it.
Replies ==
    { [data |-> "r1",
       md |-> ("nats_sequence_stream" :> "7") @@ ("nats_num_delivered" :> "1"),
       valid |-> TRUE],
      [data |-> "r2", md |-> EmptyMap, valid |-> FALSE] }

(* ------------------------------ state --------------------------------- *)

VARIABLES
    stage,      \* "new" before the constructor ran, then "live" or "failed"
    conf,       \* the parsed configuration given to the constructor
    p,          \* the requestReplyProcessor's configuration fields
    natsConn,   \* p.natsConn: Nil or the name of the connection
    connMut,    \* p.connMut: readers holding RLock, and the writer side
    conn,       \* the *nats.Conn of connect: open, closes, headers, dials
    calls,      \* per Process goroutine: position, locals and result
    closers,    \* per Close goroutine: position and result
    requests,   \* requests the broker handed to the responder, unanswered
    replies     \* replies on their way back, by inbox

vars == <<stage, conf, p, natsConn, connMut, conn, calls, closers, requests, replies>>

(* --------------------------- pure functions --------------------------- *)

Ok(v) == [ok |-> TRUE, val |-> v]
Err(e) == [ok |-> FALSE, err |-> e]

\* time.ParseDuration (line 127), in ticks of one second: a string with no
\* valid unit is an error, any signed number with a unit is accepted.
ParseDuration(str) ==
    IF str.unit # "s" THEN Err("invalid duration")
    ELSE Ok(IF str.neg THEN 0 - str.n ELSE str.n)

Min(a, b) == IF a <= b THEN a ELSE b

\* InterpolatedString.TryString (lines 177, 190): the literal, or the value
\* of the referenced metadata key, an error when the message has none.
TryString(t, msg) ==
    IF t.kind = "lit" THEN Ok(t.arg)
    ELSE IF t.arg \in DOMAIN msg.meta THEN Ok(msg.meta[t.arg])
    ELSE Err("interpolation")

\* Message.AsBytes (line 183).
AsBytes(msg) == IF msg.bytes THEN Ok(msg.body) ELSE Err("bytes")

\* nats.Header.Add for every key of `keys` (lines 194, 197): the value is
\* appended to the values already stored under the key.
HeaderAddAll(h, keys, val) ==
    [k \in DOMAIN h \cup keys |->
        (IF k \in DOMAIN h THEN h[k] ELSE <<>>)
        \o (IF k \in keys THEN <<val[k]>> ELSE <<>>)]

\* MetadataFilter.Walk (line 196): the metadata keys the filter passes to
\* the closure; a nil filter walks nothing.
WalkKeys(filter, msg) ==
    IF filter.nil THEN {} ELSE DOMAIN msg.meta \cap filter.include

\* The header templates whose evaluation fails on msg (line 190).
FailingHeaders(hdrs, msg) ==
    { k \in DOMAIN hdrs : ~TryString(hdrs[k], msg).ok }

\* Lines 189-199: the templated headers first, then the walked metadata.
ResolveHeaders(hdrs, filter, msg) ==
    LET templated == HeaderAddAll(EmptyMap, DOMAIN hdrs,
                        [k \in DOMAIN hdrs |-> TryString(hdrs[k], msg).val])
    IN  HeaderAddAll(templated, WalkKeys(filter, msg), msg.meta)

\* The header block run whatever the connection reports.
HeaderStepAlways(supported) == TRUE

\* Line 188: the header block runs only when the connection reports header
\* support.
HeaderStepRuns(supported) == supported

\* Lines 177-200 of Process, everything before the request is issued: an
\* error return, a nil dereference of natsConn in HeadersSupported, or the
\* outbound message.
Prepare(r, nc, cn, msg) ==
    LET subj == TryString(r.subject, msg)
        data == AsBytes(msg)
    IN  IF ~subj.ok THEN [kind |-> "err", err |-> "subject"]
        ELSE IF ~data.ok THEN [kind |-> "err", err |-> "bytes"]
        ELSE IF nc = Nil THEN [kind |-> "panic"]
        ELSE IF HeaderStepRuns(cn.headers)
                /\ FailingHeaders(r.headers, msg) # {}
             THEN [kind |-> "err", err |-> "header"]
        ELSE [kind |-> "send",
              nMsg |-> [subject |-> subj.val,
                        data |-> data.val,
                        header |-> IF HeaderStepRuns(cn.headers)
                                   THEN ResolveHeaders(r.headers, r.metaFilter, msg)
                                   ELSE EmptyMap]]

\* The deadline of the parent context alone, the configured timeout left out.
CallDeadlineOfParent(ctxRem, timeout) ==
    IF ctxRem.deadline THEN ctxRem.rem ELSE timeout + 1

\* The configured timeout alone, the parent's deadline left out.
CallDeadlineOfTimeout(ctxRem, timeout) == timeout

\* context.WithTimeout(ctx, r.timeout) (line 202): the earlier of the
\* parent's deadline and the configured timeout.
CallDeadline(ctxRem, timeout) ==
    IF ctxRem.deadline THEN Min(ctxRem.rem, timeout) ELSE timeout

\* The subject a reply to request c is published on.
Inbox(c) == <<"_INBOX", c>>

\* convertMessage (line 208): the reply as a pipeline message.
convertMessage(resp) ==
    IF resp.valid
    THEN Ok([body |-> resp.data,
             meta |-> ("nats_subject" :> resp.subject) @@ resp.md])
    ELSE Err("convert")

\* The input message returned in place of the converted reply.
SuccessBatchOfInput(in, out) == <<in>>

\* Line 212: the batch returned on success.
SuccessBatch(in, out) == <<out>>

\* Close that closes the connection and keeps the reference to it.
CloseHandleKeepsRef(nc, cn) ==
    IF nc # Nil
    THEN [natsConn |-> nc,
          conn |-> [cn EXCEPT !.open = FALSE, !.closes = @ + 1]]
    ELSE [natsConn |-> nc, conn |-> cn]

\* Lines 219-222 of Close: close and clear the handle when there is one.
CloseHandle(nc, cn) ==
    IF nc # Nil
    THEN [natsConn |-> Nil,
          conn |-> [cn EXCEPT !.open = FALSE, !.closes = @ + 1]]
    ELSE [natsConn |-> nc, conn |-> cn]

\* A Lock that does not wait for the readers.
CanLockAnytime(mut) == TRUE

\* A lock that admits one holder at a time, readers included.
CanRLockExclusive(mut) == mut.writer = 0 /\ mut.readers = 0

\* sync.RWMutex: RLock is granted unless a writer holds or waits for the
\* lock (line 174); Lock is granted once no reader holds it (line 216).
CanRLock(mut) == mut.writer = 0
CanLock(mut) == mut.readers = 0

(* --------------------------- construction ----------------------------- *)

\* A *MetadataFilter: nil, or the keys it includes.
NilFilter == [nil |-> TRUE, include |-> {}]

\* Line 99: the zero-valued struct the constructor starts from.
ZeroProcessor ==
    [subject |-> Lit(""), headers |-> EmptyMap, metaFilter |-> NilFilter,
     timeout |-> 0]

\* The configurations the constructor is given.
Configs ==
    [subject : SubjectConfs, headers : HeaderConfs, metadata : MetadataConfs,
     timeout : TimeoutStrings]

\* Lines 104-141: the fields the constructor reads from the configuration.
\* It reads "subject", "headers" and "timeout" (and the connection options);
\* p.metaFilter is assigned nowhere and keeps its zero value.
ParsedFields(cf) ==
    [ZeroProcessor EXCEPT !.subject = cf.subject,
                          !.headers = cf.headers,
                          !.timeout = IF ParseDuration(cf.timeout).ok
                                      THEN ParseDuration(cf.timeout).val
                                      ELSE 0]

\* A constructor that goes on to connect whatever the parsing returned.
ReachesConnectAlways(cf) == TRUE

\* Lines 104-143: the constructor returns at the first field that fails to
\* parse, and calls connect only after all of them parsed.
ReachesConnect(cf) == ParseDuration(cf.timeout).ok

NoMessage == [body |-> "", meta |-> EmptyMap, bytes |-> TRUE]

\* A Process goroutine before its call: pc is its position, msg and nMsg the
\* call's locals, left the ticks to the deadline of callCtx, callCtx the
\* child context of line 202 ("none" before it exists), reqs the number of
\* times the call invoked RequestMsgWithContext, sent the number of requests
\* that went out on the connection, (batch, err) what Process returned.
IdleCall ==
    [pc |-> "idle", msg |-> NoMessage, nMsg |-> <<>>, left |-> 0,
     callCtx |-> "none", reqs |-> 0, sent |-> 0, batch |-> <<>>, err |-> Nil]

Init ==
    /\ stage = "new"
    /\ conf \in Configs
    /\ p = ZeroProcessor
    /\ natsConn = Nil
    /\ connMut = [readers |-> 0, writer |-> 0]
    /\ conn = [open |-> FALSE, closes |-> 0, headers |-> FALSE, dials |-> 0]
    /\ calls = [c \in Procs |-> IdleCall]
    /\ closers = [k \in Closers |-> [pc |-> "idle", err |-> "unset"]]
    /\ requests = {}
    /\ replies = {}

\* newRequestReplyProcessor with connect succeeding (lines 98-147, 149-171):
\* the fields are set and natsConn holds a connection to a broker that does
\* or does not support headers.
newRequestReplyProcessor(hs) ==
    /\ stage = "new"
    /\ ReachesConnect(conf)
    /\ stage' = "live"
    /\ p' = ParsedFields(conf)
    /\ natsConn' = "conn"
    /\ conn' = [open |-> TRUE, closes |-> 0, headers |-> hs,
                dials |-> conn.dials + 1]
    /\ UNCHANGED <<conf, connMut, calls, closers, requests, replies>>

\* newRequestReplyProcessor with nats.Connect failing (lines 143-145, 167-169):
\* no processor is returned.
newRequestReplyProcessorFails ==
    /\ stage = "new"
    /\ ReachesConnect(conf)
    /\ stage' = "failed"
    /\ p' = ParsedFields(conf)
    /\ conn' = [conn EXCEPT !.dials = @ + 1]
    /\ UNCHANGED <<conf, natsConn, connMut, calls, closers, requests, replies>>

\* newRequestReplyProcessor returning a configuration error (lines 104-141):
\* no processor is returned and connect is not called.
newRequestReplyProcessorRejects ==
    /\ stage = "new"
    /\ ~ReachesConnect(conf)
    /\ stage' = "failed"
    /\ p' = ParsedFields(conf)
    /\ UNCHANGED <<conf, natsConn, connMut, conn, calls, closers, requests, replies>>

(* ------------------------------ Process ------------------------------- *)

\* A return that leaves the shared lock held.
RUnlockNever(mut) == mut

\* The deferred RUnlock (line 175).
RUnlock(mut) == [mut EXCEPT !.readers = @ - 1]

\* An error returned together with the input message.
ErrorReturnWithInput(msg, err) == [batch |-> <<msg>>, err |-> err]

\* "return nil, err" (lines 179, 185, 192, 206, 210).
ErrorReturn(msg, err) == [batch |-> <<>>, err |-> err]

\* "return service.MessageBatch{msg}, nil" (line 212), msg being the
\* converted reply by then.
SuccessReturn(in, out) == [batch |-> SuccessBatch(in, out), err |-> Nil]

\* A Process that dials again when it finds the handle cleared.
HandleRedialled(nc, ret) == IF nc = Nil THEN "conn" ELSE nc

\* A Process that drops the handle when the call failed.
HandleDroppedOnError(nc, ret) == IF ret.err = Nil THEN nc ELSE Nil

\* r.natsConn once Process has returned ret: Process (lines 173-213) reads
\* the handle and assigns it nowhere.
HandleAfterProcess(nc, ret) == nc

\* A Process with no "defer cancel()".
NoDeferredCancel(cc) == cc

\* "defer cancel()" (line 203): it runs on every return after line 202 and
\* cancels the child context; before line 202 there is none to cancel.
DeferredCancel(cc) == IF cc = "live" THEN "cancelled" ELSE cc

\* The call's record once Process has returned ret: the deferred cancel has
\* run and the call's locals are gone.
Returned(cs, c, ret) ==
    [cs EXCEPT ![c].pc = "done", ![c].batch = ret.batch, ![c].err = ret.err,
               ![c].msg = NoMessage, ![c].nMsg = <<>>, ![c].left = 0,
               ![c].callCtx = DeferredCancel(@)]

\* A return of Process from the pending request: the result and the deferred
\* RUnlock. The connection forgets the request's inbox, so that a reply
\* still on its way, or one the responder has yet to publish, is discarded.
Return(c, ret) ==
    /\ calls' = Returned(calls, c, ret)
    /\ natsConn' = HandleAfterProcess(natsConn, ret)
    /\ connMut' = RUnlock(connMut)
    /\ replies' = { m \in replies : m.to # Inbox(c) }
    /\ requests' = requests \ {c}

\* Line 174: Process takes the shared lock.
ProcessRLock(c) ==
    /\ stage = "live"
    /\ calls[c].pc = "idle"
    /\ CanRLock(connMut)
    /\ connMut' = [connMut EXCEPT !.readers = @ + 1]
    /\ calls' = [calls EXCEPT ![c].pc = "held"]
    /\ UNCHANGED <<stage, conf, p, natsConn, conn, closers, requests, replies>>

\* Lines 177-204: subject, payload and headers, then the request is issued
\* under the call's deadline; RequestMsgWithContext returns at once when the
\* context is already done.
ProcessRequest(c, msg, ctxRem) ==
    /\ calls[c].pc = "held"
    /\ LET pre == Prepare(p, natsConn, conn, msg)
           dl == CallDeadline(ctxRem, p.timeout)
           in == [calls EXCEPT ![c].msg = msg]
           rq == [in EXCEPT ![c].callCtx = "live", ![c].reqs = @ + 1]
       IN  CASE pre.kind = "err" ->
                  /\ calls' = Returned(in, c, ErrorReturn(msg, pre.err))
                  /\ natsConn' = HandleAfterProcess(natsConn, ErrorReturn(msg, pre.err))
                  /\ connMut' = RUnlock(connMut)
                  /\ UNCHANGED requests
             [] pre.kind = "panic" ->
                  /\ calls' = [in EXCEPT ![c].pc = "panic", ![c].msg = NoMessage]
                  /\ connMut' = RUnlock(connMut)
                  /\ UNCHANGED <<natsConn, requests>>
             [] pre.kind = "send" /\ dl <= 0 ->
                  /\ calls' = Returned(rq, c, ErrorReturn(msg, "deadline"))
                  /\ natsConn' = HandleAfterProcess(natsConn, ErrorReturn(msg, "deadline"))
                  /\ connMut' = RUnlock(connMut)
                  /\ UNCHANGED requests
             [] pre.kind = "send" /\ dl > 0 ->
                  /\ calls' = [rq EXCEPT ![c].pc = "waiting",
                                         ![c].nMsg = <<pre.nMsg>>,
                                         ![c].sent = @ + 1,
                                         ![c].left = dl]
                  /\ requests' = requests \cup {c}
                  /\ UNCHANGED <<natsConn, connMut>>
    /\ UNCHANGED <<stage, conf, p, conn, closers, replies>>

\* The responder answers request c, whose call still waits: the reply is
\* published on c's inbox.
Respond(c, r) ==
    /\ c \in requests
    /\ requests' = requests \ {c}
    /\ replies' =
          replies \cup
            { [to |-> Inbox(c), subject |-> Inbox(c), data |-> r.data,
               md |-> r.md, valid |-> r.valid, request |-> c] }
    /\ UNCHANGED <<stage, conf, p, natsConn, connMut, conn, calls, closers>>

\* Any reply in flight, whatever inbox it was published on.
RepliesForAny(c) == replies

\* The replies RequestMsgWithContext of call c may return: those published
\* on the inbox of its own request (line 204).
RepliesFor(c) == { m \in replies : m.to = Inbox(c) }

\* A Process that sends the request again when it failed.
RequestFailedRetries(c, err) ==
    IF calls[c].reqs < 2
    THEN /\ calls' = [calls EXCEPT ![c].reqs = @ + 1, ![c].sent = @ + 1,
                                   ![c].left = 1]
         /\ UNCHANGED <<natsConn, connMut, replies, requests>>
    ELSE Return(c, ErrorReturn(calls[c].msg, err))

\* Lines 205-207: "if err != nil { return nil, err }", the error of
\* RequestMsgWithContext goes to the caller as it is.
RequestFailed(c, err) == Return(c, ErrorReturn(calls[c].msg, err))

\* Lines 204-212: a reply arrives before the deadline; it is converted and
\* returned.
ProcessReply(c) ==
    /\ calls[c].pc = "waiting"
    /\ calls[c].left > 0
    /\ \E m \in RepliesFor(c) :
         /\ LET out == convertMessage(m)
            IN  IF out.ok
                THEN Return(c, SuccessReturn(calls[c].msg, out.val))
                ELSE Return(c, ErrorReturn(calls[c].msg, out.err))
    /\ UNCHANGED <<stage, conf, p, conn, closers>>

\* Lines 204-207: the deadline of callCtx passes with no reply.
ProcessTimeout(c) ==
    /\ calls[c].pc = "waiting"
    /\ calls[c].left = 0
    /\ RequestFailed(c, "deadline")
    /\ UNCHANGED <<stage, conf, p, conn, closers>>

\* Lines 204-207: the caller cancels ctx while the request is pending.
ProcessCancel(c) ==
    /\ calls[c].pc = "waiting"
    /\ calls[c].left > 0
    /\ RequestFailed(c, "canceled")
    /\ UNCHANGED <<stage, conf, p, conn, closers>>

\* Lines 204-207: the transport fails while the request is pending.
ProcessConnError(c) ==
    /\ calls[c].pc = "waiting"
    /\ calls[c].left > 0
    /\ RequestFailed(c, "transport")
    /\ UNCHANGED <<stage, conf, p, conn, closers>>

\* One tick of the clock: every pending request comes one tick closer to its
\* deadline. A deadline that is due fires before more time passes.
Tick ==
    /\ \E c \in Procs : calls[c].pc = "waiting"
    /\ \A c \in Procs : calls[c].pc = "waiting" => calls[c].left > 0
    /\ calls' = [c \in Procs |->
                   IF calls[c].pc = "waiting"
                   THEN [calls[c] EXCEPT !.left = @ - 1]
                   ELSE calls[c]]
    /\ UNCHANGED <<stage, conf, p, natsConn, connMut, conn, closers, requests, replies>>

(* ------------------------------- Close -------------------------------- *)

\* Line 216, Lock called: the writer announces itself, which holds back new
\* readers; one writer at a time gets this far.
CloseLock(k) ==
    /\ stage = "live"
    /\ closers[k].pc = "idle"
    /\ connMut.writer = 0
    /\ connMut' = [connMut EXCEPT !.writer = k]
    /\ closers' = [closers EXCEPT ![k].pc = "pending"]
    /\ UNCHANGED <<stage, conf, p, natsConn, conn, calls, requests, replies>>

\* Line 216, Lock returns once every reader has released the lock; then
\* lines 219-223 and the deferred Unlock (line 217) run under it.
Close(k) ==
    /\ closers[k].pc = "pending"
    /\ CanLock(connMut)
    /\ LET after == CloseHandle(natsConn, conn)
       IN  /\ natsConn' = after.natsConn
           /\ conn' = after.conn
    /\ connMut' = [connMut EXCEPT !.writer = 0]
    /\ closers' = [closers EXCEPT ![k].pc = "done", ![k].err = Nil]
    /\ UNCHANGED <<stage, conf, p, calls, requests, replies>>

Next ==
    \/ \E hs \in BOOLEAN : newRequestReplyProcessor(hs)
    \/ newRequestReplyProcessorFails
    \/ newRequestReplyProcessorRejects
    \/ \E c \in Procs : ProcessRLock(c)
    \/ \E c \in Procs, msg \in Messages, ctxRem \in CtxRemaining :
          ProcessRequest(c, msg, ctxRem)
    \/ \E c \in Procs, r \in Replies : Respond(c, r)
    \/ \E c \in Procs : ProcessReply(c)
    \/ \E c \in Procs : ProcessTimeout(c)
    \/ \E c \in Procs : ProcessCancel(c)
    \/ \E c \in Procs : ProcessConnError(c)
    \/ Tick
    \/ \E k \in Closers : CloseLock(k)
    \/ \E k \in Closers : Close(k)

Spec == Init /\ [][Next]_vars

\* The scheduling the code can count on: a goroutine that holds the shared
\* lock goes on to its request (lines 177-204), time passes, a deadline that
\* is due ends the pending request (line 204), and the mutex grants Lock to
\* the waiting writer once the readers are gone (line 216).
Fairness ==
    /\ \A c \in Procs :
         /\ WF_vars(\E msg \in Messages, ctxRem \in CtxRemaining :
                       ProcessRequest(c, msg, ctxRem))
         /\ WF_vars(ProcessTimeout(c))
    /\ WF_vars(Tick)
    /\ \A k \in Closers : WF_vars(Close(k))

FairSpec == Spec /\ Fairness

(* ---------------------------- properties ------------------------------ *)

\* A Process call holds the shared lock from RLock to its return.
InFlight(c) == calls[c].pc \in {"held", "waiting"}

\* Process has returned (batch, err) to its caller.
Done(c) == calls[c].pc = "done"

\* C1: a Process call issued after Close has completed (it runs with the
\* handle cleared) ends by returning an error and no batch; it does not end
\* in a nil dereference.
C1_ProcessAfterCloseFailsCleanly ==
    [][\A c \in Procs :
         (natsConn = Nil /\ calls[c].pc = "held" /\ calls'[c].pc # "held")
         => /\ calls'[c].pc = "done"
            /\ calls'[c].err # Nil
            /\ calls'[c].batch = <<>>]_vars

\* C2: every Close returns nil, and however many Close calls ran, the
\* connection was closed exactly once and the handle is cleared.
C2_CloseIdempotent ==
    /\ \A k \in Closers : closers[k].pc = "done" => closers[k].err = Nil
    /\ conn.closes <= 1
    /\ (\E k \in Closers : closers[k].pc = "done")
         => (natsConn = Nil /\ conn.closes = 1 /\ ~conn.open)

\* C2 witness: two Close calls have returned.
C2_Witness ==
    \E k1, k2 \in Closers :
        k1 # k2 /\ closers[k1].pc = "done" /\ closers[k2].pc = "done"

\* C3: while a Process call holds the shared lock the handle is neither
\* closed nor cleared, and a call that took the lock on a connected stage
\* keeps an open, non-nil handle until it returns.
C3_CloseExcludesProcess ==
    [][(\E c \in Procs : InFlight(c))
         => /\ natsConn' = natsConn
            /\ conn' = conn
            /\ \A c \in Procs :
                 (InFlight(c) /\ natsConn # Nil /\ InFlight(c)')
                 => (natsConn' # Nil /\ conn'.open)]_vars

\* C3 witness: a Close waits for the lock while a call is blocked on its
\* request over the open connection.
C3_Witness ==
    /\ \E k \in Closers : closers[k].pc = "pending"
    /\ \E c \in Procs : calls[c].pc = "waiting"
    /\ natsConn # Nil /\ conn.open

\* C4: when a reply the pipeline can convert arrives before the deadline,
\* Process returns a batch of exactly that one record: the reply's payload
\* as body, its subject and delivery metadata as metadata.
C4_ReplyBecomesTheOutput ==
    [][\A c \in Procs : (calls'[c] # calls[c] /\ ProcessReply(c)) =>
         \A m \in replies : (m.request = c /\ m.valid) =>
            /\ calls'[c].pc = "done"
            /\ calls'[c].err = Nil
            /\ calls'[c].batch =
                 << [body |-> m.data,
                     meta |-> ("nats_subject" :> m.subject) @@ m.md] >>
            /\ DOMAIN m.md \subseteq DOMAIN calls'[c].batch[1].meta]_vars

\* C4 witness: a call has returned one record made of the reply.
C4_Witness ==
    \E c \in Procs :
        /\ Done(c) /\ calls[c].err = Nil /\ Len(calls[c].batch) = 1
        /\ calls[c].batch[1].body = "r1"
        /\ "nats_sequence_stream" \in DOMAIN calls[c].batch[1].meta

\* C5: a request never waits past the configured timeout; once its deadline
\* is due with no reply, the call can only return the deadline error and no
\* batch; and what a call returned is never changed by a later reply.
C5_TimeoutFailsTheCall ==
    [][\A c \in Procs :
         /\ (calls[c].pc = "held" /\ calls'[c].pc = "waiting")
              => (calls'[c].left > 0 /\ calls'[c].left <= p.timeout)
         /\ (calls[c].pc = "waiting" /\ calls[c].left = 0)
              => \/ calls'[c] = calls[c]
                 \/ /\ calls'[c].pc = "done"
                    /\ calls'[c].err = "deadline"
                    /\ calls'[c].batch = <<>>
         /\ Done(c) => calls'[c] = calls[c]]_vars

\* C5 witness: a call timed out on a request it had sent, and no answer to
\* that request is awaited any more.
C5_Witness ==
    \E c \in Procs :
        /\ Done(c) /\ calls[c].err = "deadline" /\ calls[c].sent = 1
        /\ c \notin requests

\* C6: every successful call returns the reply published on the inbox of its
\* own request, and no two calls return the same reply.
C6_NoCrossTalk ==
    /\ \A c \in Procs :
         (Done(c) /\ calls[c].err = Nil)
         => calls[c].batch[1].meta["nats_subject"] = Inbox(c)
    /\ \A c, d \in Procs :
         (c # d /\ Done(c) /\ Done(d) /\ calls[c].err = Nil /\ calls[d].err = Nil)
         => calls[c].batch # calls[d].batch

\* C6 witness: every Process goroutine's call has succeeded.
C6_Witness ==
    \A c \in Procs : Done(c) /\ calls[c].err = Nil

\* The values a header set carries under a name.
HeaderValues(h, k) == IF k \in DOMAIN h THEN h[k] ELSE <<>>

\* s contains v.
Has(s, v) == \E i \in 1..Len(s) : s[i] = v

\* C7: on a connection with header support, every metadata key/value of the
\* message that the configured "metadata" filter selects is a header of the
\* outbound message.
C7_MetadataFilterApplied ==
    \A c \in Procs :
        (calls[c].pc = "waiting" /\ conn.headers)
        => \A k \in conf.metadata.include \cap DOMAIN calls[c].msg.meta :
             Has(HeaderValues(calls[c].nMsg[1].header, k), calls[c].msg.meta[k])

\* C8: when a templated header's name is also a metadata key the filter
\* selects, the outbound message carries both values under it, templated
\* first, metadata second.
C8_TemplatedThenMetadata ==
    \A c \in Procs :
        (calls[c].pc = "waiting" /\ conn.headers)
        => \A k \in (DOMAIN p.headers \cap conf.metadata.include)
                        \cap DOMAIN calls[c].msg.meta :
             HeaderValues(calls[c].nMsg[1].header, k)
               = << TryString(p.headers[k], calls[c].msg).val,
                    calls[c].msg.meta[k] >>

\* C9: on a connection without header support the outbound message has no
\* headers and no call fails on a header template.
C9_NoHeadersWithoutSupport ==
    ~conn.headers =>
        \A c \in Procs :
            /\ calls[c].pc = "waiting" => calls[c].nMsg[1].header = EmptyMap
            /\ Done(c) => calls[c].err # "header"

\* C9 witness: a request went out on a connection without header support
\* although a configured header template fails on its message.
C9_Witness ==
    /\ stage = "live" /\ ~conn.headers
    /\ \E c \in Procs :
         /\ calls[c].pc = "waiting"
         /\ FailingHeaders(p.headers, calls[c].msg) # {}

\* C10: a call that failed on the subject, the payload or a header template
\* sent no request; and Process returns either one record and no error, or
\* an error and no record.
C10_FailureAtomicity ==
    \A c \in Procs :
        Done(c) =>
            /\ calls[c].err \in {"subject", "bytes", "header"}
                 => (calls[c].sent = 0 /\ c \notin requests)
            /\ \/ (calls[c].err = Nil /\ Len(calls[c].batch) = 1)
               \/ (calls[c].err # Nil /\ calls[c].batch = <<>>)

\* C10 witness: calls have failed on a header template and on the pending
\* request.
C10_Witness ==
    \E c, d \in Procs :
        /\ Done(c) /\ calls[c].err = "header"
        /\ Done(d) /\ calls[d].err \in {"deadline", "transport", "convert"}
        /\ calls[d].sent = 1

\* C11: the constructor returns a stage only when every field parsed and
\* connect succeeded; on a stage it did not return nothing ever runs and no
\* connection is held; and a configuration error is returned before connect
\* is called, so that no connection attempt is made for it.
C11_ConstructionAllOrNothing ==
    /\ stage = "live" => (ParseDuration(conf.timeout).ok /\ conn.dials = 1)
    /\ stage # "live" =>
         /\ natsConn = Nil /\ ~conn.open
         /\ \A c \in Procs : calls[c].pc = "idle"
         /\ \A k \in Closers : closers[k].pc = "idle"
    /\ (stage = "failed" /\ ~ParseDuration(conf.timeout).ok) => conn.dials = 0

\* C11 witness: the constructor has rejected a malformed timeout string.
C11_Witness ==
    stage = "failed" /\ ~ParseDuration(conf.timeout).ok /\ conn.dials = 0

\* The lifecycle state of the connection handle.
Lifecycle ==
    IF natsConn # Nil THEN "Connected"
    ELSE IF conn.closes > 0 THEN "Closed"
    ELSE "Unconnected"

\* C12: the handle only goes from Unconnected to Connected and from
\* Connected to Closed; once cleared it stays nil whatever Process and Close
\* calls follow; and connect runs once, for the stage the constructor
\* returns.
C12_LifecycleMonotone ==
    [][/\ \/ Lifecycle' = Lifecycle
          \/ (Lifecycle = "Unconnected" /\ Lifecycle' = "Connected")
          \/ (Lifecycle = "Connected" /\ Lifecycle' = "Closed")
       /\ (stage = "live" /\ natsConn = Nil) => natsConn' = Nil
       /\ conn'.dials <= 1
       /\ (Lifecycle = "Unconnected" /\ Lifecycle' = "Connected")
            => (stage = "new" /\ conn'.dials = conn.dials + 1)]_vars

\* C12 witness: after two Close calls a Process call runs on the closed
\* stage, the handle nil.
C12_Witness ==
    /\ Lifecycle = "Closed"
    /\ \A k \in Closers : closers[k].pc = "done"
    /\ \E c \in Procs : calls[c].pc = "held"

\* C13: every stage the constructor returns has a request timeout strictly
\* greater than zero.
C13_TimeoutPositive == stage = "live" => p.timeout > 0

\* C14: a call invokes the request at most once, and once exactly when the
\* subject, the payload and the headers resolved; what went out on the
\* connection is at most that one request; and when the pending request
\* ends by deadline or transport error the call returns that error, having
\* sent nothing more.
C14_NoInternalRetry ==
    /\ [](\A c \in Procs :
           /\ calls[c].reqs <= 1
           /\ calls[c].sent <= calls[c].reqs
           /\ calls[c].pc = "waiting" => calls[c].reqs = 1
           /\ calls[c].pc = "done" =>
                (calls[c].reqs = 1
                   <=> calls[c].err \notin {"subject", "bytes", "header"}))
    /\ [][\A c \in Procs :
         /\ (calls'[c] # calls[c] /\ ProcessTimeout(c)) =>
              (calls'[c].pc = "done" /\ calls'[c].err = "deadline"
                 /\ calls'[c].sent = calls[c].sent)
         /\ (calls'[c] # calls[c] /\ ProcessConnError(c)) =>
              (calls'[c].pc = "done" /\ calls'[c].err = "transport"
                 /\ calls'[c].sent = calls[c].sent)]_vars

\* C14 witness: one call returned the transport error and another the
\* deadline error of its one request, sent once.
C14_Witness ==
    \E c, d \in Procs :
        /\ Done(c) /\ calls[c].err = "transport"
        /\ calls[c].reqs = 1 /\ calls[c].sent = 1
        /\ Done(d) /\ calls[d].err = "deadline"
        /\ calls[d].reqs = 1 /\ calls[d].sent = 1

\* C15: the request of a call is issued under a deadline that is no later
\* than the configured timeout, no later than the deadline of the incoming
\* context when it has one, and equal to one of the two; when that deadline
\* is already due the call fails with the deadline error, nothing sent.
C15_DeadlineIsTheMinimum ==
    [][\A c \in Procs :
         (calls[c].pc = "held" /\ calls'[c].reqs = 1) =>
         \A msg \in Messages : \A ctxRem \in CtxRemaining :
         ProcessRequest(c, msg, ctxRem) =>
            IF p.timeout <= 0 \/ (ctxRem.deadline /\ ctxRem.rem <= 0)
            THEN /\ calls'[c].pc = "done"
                 /\ calls'[c].err = "deadline"
                 /\ calls'[c].sent = 0
            ELSE /\ calls'[c].pc = "waiting"
                 /\ calls'[c].left <= p.timeout
                 /\ ctxRem.deadline => calls'[c].left <= ctxRem.rem
                 /\ \/ calls'[c].left = p.timeout
                    \/ (ctxRem.deadline /\ calls'[c].left = ctxRem.rem)]_vars

\* C15 witness: with a positive timeout configured, one call was handed a
\* context already past its deadline and failed without sending, while the
\* request of another waits under the configured timeout.
C15_Witness ==
    \E c, d \in Procs :
        /\ p.timeout > 0
        /\ Done(d) /\ calls[d].err = "deadline"
        /\ calls[d].reqs = 1 /\ calls[d].sent = 0
        /\ calls[c].pc = "waiting" /\ calls[c].left = p.timeout

\* C16: when the caller cancels the incoming context while the request is
\* pending, the call returns the cancellation error and no batch, giving up
\* the shared lock; a child context is live only while its call is blocked
\* on the request; and every call that created one has cancelled it by the
\* time it has returned, whatever it returned.
C16_CancellationAndRelease ==
    /\ [][\A c \in Procs :
           (calls'[c] # calls[c] /\ ProcessCancel(c)) =>
              /\ calls'[c].pc = "done"
              /\ calls'[c].err = "canceled"
              /\ calls'[c].batch = <<>>
              /\ connMut'.readers = connMut.readers - 1]_vars
    /\ [](\A c \in Procs :
           /\ calls[c].callCtx = "live" => calls[c].pc = "waiting"
           /\ calls[c].pc = "waiting" => calls[c].callCtx = "live"
           /\ calls[c].pc = "done" =>
                calls[c].callCtx = IF calls[c].reqs = 1 THEN "cancelled"
                                   ELSE "none")

\* C16 witness: one call returned on the caller's cancellation and another
\* with a reply, the child context of each cancelled.
C16_Witness ==
    \E c, d \in Procs :
        /\ Done(c) /\ calls[c].err = "canceled"
        /\ calls[c].callCtx = "cancelled"
        /\ Done(d) /\ calls[d].err = Nil
        /\ calls[d].callCtx = "cancelled"

\* C17: with no Close holding or waiting for the exclusive lock, a Process
\* call that has not started can take the shared lock at once, however many
\* other calls hold it; a call is kept from the lock only while a Close
\* waits for it.
C17_ProcessCallsRunTogether ==
    /\ \A c \in Procs :
         (stage = "live" /\ calls[c].pc = "idle" /\ connMut.writer = 0)
         => ENABLED ProcessRLock(c)
    /\ \A c \in Procs :
         (stage = "live" /\ calls[c].pc = "idle" /\ ~ENABLED ProcessRLock(c))
         => \E k \in Closers : closers[k].pc = "pending"

\* C17 witness: every Process call is blocked on its request at the same
\* time, each holding the shared lock, no Close about.
C17_Witness ==
    /\ connMut.writer = 0
    /\ connMut.readers = NumProcs
    /\ \A c \in Procs : calls[c].pc = "waiting"

\* C18: a step of a Process call, whatever the call returns, leaves the
\* configuration of the stage, the stored handle and the connection as they
\* were; the handle changes only in the constructor's connect and in Close,
\* and the configuration only in the constructor.
C18_ProcessLeavesTheStageAlone ==
    [][/\ (\E c \in Procs : calls'[c] # calls[c])
            => (p' = p /\ natsConn' = natsConn /\ conn' = conn /\ conf' = conf)
       /\ natsConn' # natsConn
            => \/ stage = "new"
               \/ \E k \in Closers :
                    closers[k].pc = "pending" /\ closers'[k].pc = "done"
       /\ p' # p => stage = "new"]_vars

\* C18 witness: on a Connected stage one call has failed on its request and
\* another has returned a reply.
C18_Witness ==
    /\ natsConn # Nil /\ conn.open
    /\ \E c, d \in Procs :
         /\ Done(c) /\ calls[c].err \in {"transport", "deadline", "convert"}
         /\ Done(d) /\ calls[d].err = Nil /\ Len(calls[d].batch) = 1

\* C19: the holders of the shared lock are always as many as the Process
\* calls in flight, a call that has returned or not begun holding none; and
\* a Close that waits for the exclusive lock gets it and returns, the calls
\* in flight ending by reply, error or deadline.
C19_ShutdownCompletes ==
    /\ [](connMut.readers = Cardinality({ c \in Procs : InFlight(c) }))
    /\ \A k \in Closers :
         (closers[k].pc = "pending") ~> (closers[k].pc = "done")

\* C19 witness: a Close waits for the exclusive lock while every Process
\* call is in flight, one of them blocked on its request.
C19_Witness ==
    /\ \E k \in Closers : closers[k].pc = "pending" /\ connMut.writer = k
    /\ \A c \in Procs : InFlight(c)
    /\ \E c \in Procs : calls[c].pc = "waiting"
    /\ connMut.readers = NumProcs

====
